---------------------------- MODULE Spec2Model ----------------------------
(***************************************************************************)
(* A model of seal::Ciphertext (src/src/seal/ciphertext.cpp): the shape    *)
(* manager (reserve, resize), the validity checks (is_valid_for,           *)
(* is_metadata_valid_for), copy-assignment and the binary codec (save,     *)
(* unsafe_load).                                                           *)
(*                                                                         *)
(* Integers are scaled: a byte of the stream carries ByteBits bits, so a   *)
(* uint64_t (8 bytes) holds values below 2^(8*ByteBits) and std::size_t    *)
(* holds values below 2^(size_type_bytes*ByteBits), where size_type_bytes  *)
(* is 8 on a build whose size_t is as wide as uint64_t and 4 on a build    *)
(* with a narrower size_t.                                                 *)
(***************************************************************************)
EXTENDS Integers, Sequences, FiniteSets, TLC

VARIABLES
    size_type_bytes,  \* sizeof(std::size_t) of the build, fixed for a run
    ct,               \* the Ciphertext objects, indexed by Objects
    stream,           \* the byte stream save writes and unsafe_load reads:
                      \* its bytes, exception mask and state bits
    last              \* the last completed call: what it was and how it ended

vars == <<size_type_bytes, ct, stream, last>>

\* ------------------------------------------------------------- bounds

\* Bits carried by one byte of the model (8 in the program).
ByteBits == 2

\* Largest ciphertext size (the library configures 16; scaled down).
SEAL_CIPHERTEXT_SIZE_MAX == 3

\* Most coefficients of one buffer that external code has set to a nonzero value.
MaxNonZero == 1

\* ---------------------------------------------------------- constants

SEAL_CIPHERTEXT_SIZE_MIN == 2

\* sizeof(uint64_t), the width of every integer field of the wire format.
U64Bytes == 8

\* Number of uint64_t words of a parms_id_type (sizeof(parms_id_type) = 32).
ParmsIdWords == 4

SizeTypeWidths == {4, 8}

Objects == {1, 2}

\* ------------------------------------------------------- integer types

Pow2(n) == 2 ^ n

U64Max == Pow2(U64Bytes * ByteBits) - 1

SizeMaxOf(w) == Pow2(w * ByteBits) - 1

\* The largest std::size_t of the build.
SizeMax == SizeMaxOf(size_type_bytes)

Min(a, b) == IF a < b THEN a ELSE b

\* a * b is representable in an unsigned type whose largest value is max.
\* Decided by division, as the product itself may not be computable.
MulFits(a, b, max) == a = 0 \/ b <= max \div a

\* util::mul_safe(in1, in2, in3) in an unsigned type whose largest value is
\* max: the product is folded from the left and the call throws as soon as
\* one intermediate product is not representable.
mul_safe_throws(in1, in2, in3, max) ==
    IF ~MulFits(in1, in2, max) THEN TRUE ELSE ~MulFits(in1 * in2, in3, max)

\* The value util::mul_safe returns when it does not throw.
mul_safe(in1, in2, in3) == in1 * in2 * in3

\* util::safe_cast<T>(v) for unsigned v: succeeds iff v fits in T.
safe_cast_ok(v, max) == v <= max

\* util::unsigned_neq(a, b)
unsigned_neq(a, b) == a /= b

\* ------------------------------------------------ parameter-set registry

ParmsId(k) == [w \in 1..ParmsIdWords |-> IF w = 1 THEN k ELSE 0]

parms_id_zero == ParmsId(0)

\* The contexts a caller can pass: a null pointer, a context whose parameters
\* are not set, and a valid context.
Contexts == {"null", "unset", "valid"}

\* The parameter sets of the valid context: ring degree and the ordered moduli.
\* Set 3 has a degree so large that any admissible nonzero size overflows.
ContextData(k) ==
    CASE k = 1 -> [poly_modulus_degree |-> 1, coeff_modulus |-> <<2>>]
      [] k = 2 -> [poly_modulus_degree |-> 2, coeff_modulus |-> <<2, 3>>]
      [] k = 3 -> [poly_modulus_degree |-> Pow2(size_type_bytes * ByteBits - 1),
                   coeff_modulus |-> <<2>>]

RegisteredKeys == {1, 2, 3}

\* context->context_data(parms_id): the entry, or Null when there is none.
Null == [poly_modulus_degree |-> 0, coeff_modulus |-> <<>>, null |-> TRUE]

context_data(parms_id) ==
    IF \E k \in RegisteredKeys : ParmsId(k) = parms_id
    THEN ContextData(CHOOSE k \in RegisteredKeys : ParmsId(k) = parms_id)
    ELSE Null

IsNull(cd) == "null" \in DOMAIN cd

\* ----------------------------------------------------------- IntArray

\* IntArray::resize(n): keeps the first min(old, n) elements, zero-fills the rest.
\* Growing past the reserved capacity reallocates to exactly n.
data_resize(d, n) ==
    [elems |-> [i \in 1..n |-> IF i <= Len(d.elems) THEN d.elems[i] ELSE 0],
     capacity |-> IF n > d.capacity THEN n ELSE d.capacity]

\* IntArray::reserve(n): storage for at least n elements, never shrinking.
data_reserve(d, n) ==
    [d EXCEPT !.capacity = IF n > d.capacity THEN n ELSE d.capacity]

EmptyData == [elems |-> <<>>, capacity |-> 0]

\* ---------------------------------------------------------- Ciphertext

\* A default-constructed Ciphertext.
DefaultCiphertext ==
    [parms_id |-> parms_id_zero,
     is_ntt_form |-> FALSE,
     scale |-> 0,
     size |-> 0,
     size_capacity |-> 0,
     poly_modulus_degree |-> 0,
     coeff_mod_count |-> 0,
     data |-> EmptyData]

Ok(c) == [err |-> "none", msg |-> "", ct |-> c]

Throw(kind, what, c) == [err |-> kind, msg |-> what, ct |-> c]

\* reserve_internal without the clamp of size_ to the new size_capacity.
reserve_internal_no_clamp(c, size_capacity, poly_modulus_degree, coeff_mod_count) ==
    IF size_capacity < SEAL_CIPHERTEXT_SIZE_MIN \/
       size_capacity > SEAL_CIPHERTEXT_SIZE_MAX
    THEN Throw("InvalidArgument", "invalid size_capacity", c)
    ELSE
      LET new_data_capacity ==
              mul_safe(size_capacity, poly_modulus_degree, coeff_mod_count)
          new_data_size == Min(new_data_capacity, Len(c.data.elems))
      IN  IF mul_safe_throws(size_capacity, poly_modulus_degree, coeff_mod_count,
                             SizeMax)
          THEN Throw("ArithmeticOverflow", "unsigned overflow", c)
          ELSE Ok([c EXCEPT
                     !.data = data_resize(data_reserve(c.data, new_data_capacity),
                                          new_data_size),
                     !.size_capacity = size_capacity,
                     !.poly_modulus_degree = poly_modulus_degree,
                     !.coeff_mod_count = coeff_mod_count])

\* reserve_internal resizing the buffer to the whole new capacity.
reserve_internal_full_length(c, size_capacity, poly_modulus_degree, coeff_mod_count) ==
    IF size_capacity < SEAL_CIPHERTEXT_SIZE_MIN \/
       size_capacity > SEAL_CIPHERTEXT_SIZE_MAX
    THEN Throw("InvalidArgument", "invalid size_capacity", c)
    ELSE
      LET new_data_capacity ==
              mul_safe(size_capacity, poly_modulus_degree, coeff_mod_count)
      IN  IF mul_safe_throws(size_capacity, poly_modulus_degree, coeff_mod_count,
                             SizeMax)
          THEN Throw("ArithmeticOverflow", "unsigned overflow", c)
          ELSE Ok([c EXCEPT
                     !.data = data_resize(data_reserve(c.data, new_data_capacity),
                                          new_data_capacity),
                     !.size_capacity = size_capacity,
                     !.size = Min(size_capacity, c.size),
                     !.poly_modulus_degree = poly_modulus_degree,
                     !.coeff_mod_count = coeff_mod_count])

\* Ciphertext::reserve_internal
reserve_internal(c, size_capacity, poly_modulus_degree, coeff_mod_count) ==
    IF size_capacity < SEAL_CIPHERTEXT_SIZE_MIN \/
       size_capacity > SEAL_CIPHERTEXT_SIZE_MAX
    THEN Throw("InvalidArgument", "invalid size_capacity", c)
    ELSE
      LET new_data_capacity ==
              mul_safe(size_capacity, poly_modulus_degree, coeff_mod_count)
          new_data_size == Min(new_data_capacity, Len(c.data.elems))
      IN  IF mul_safe_throws(size_capacity, poly_modulus_degree, coeff_mod_count,
                             SizeMax)
          THEN Throw("ArithmeticOverflow", "unsigned overflow", c)
          ELSE Ok([c EXCEPT
                     !.data = data_resize(data_reserve(c.data, new_data_capacity),
                                          new_data_size),
                     !.size_capacity = size_capacity,
                     !.size = Min(size_capacity, c.size),
                     !.poly_modulus_degree = poly_modulus_degree,
                     !.coeff_mod_count = coeff_mod_count])

\* reserve storing the fingerprint only once reserve_internal has succeeded.
reserve_parms_id_last(c, context, parms_id, size_capacity) ==
    IF context = "null"
    THEN Throw("InvalidArgument", "invalid context", c)
    ELSE IF context = "unset"
    THEN Throw("InvalidArgument", "encryption parameters are not set correctly", c)
    ELSE IF IsNull(context_data(parms_id))
    THEN Throw("InvalidArgument", "parms_id is not valid for encryption parameters", c)
    ELSE
      LET parms == context_data(parms_id)
          r == reserve_internal(c, size_capacity,
                                parms.poly_modulus_degree, Len(parms.coeff_modulus))
      IN  IF r.err = "none" THEN Ok([r.ct EXCEPT !.parms_id = parms_id]) ELSE r

\* Ciphertext::reserve
reserve(c, context, parms_id, size_capacity) ==
    IF context = "null"
    THEN Throw("InvalidArgument", "invalid context", c)
    ELSE IF context = "unset"
    THEN Throw("InvalidArgument", "encryption parameters are not set correctly", c)
    ELSE IF IsNull(context_data(parms_id))
    THEN Throw("InvalidArgument", "parms_id is not valid for encryption parameters", c)
    ELSE
      LET parms == context_data(parms_id)
      IN  reserve_internal([c EXCEPT !.parms_id = parms_id], size_capacity,
                           parms.poly_modulus_degree, Len(parms.coeff_modulus))

\* resize_internal keeping the buffer no longer than it was, as reserve does.
resize_internal_min_length(c, size, poly_modulus_degree, coeff_mod_count) ==
    IF (size < SEAL_CIPHERTEXT_SIZE_MIN /\ size /= 0) \/
       size > SEAL_CIPHERTEXT_SIZE_MAX
    THEN Throw("InvalidArgument", "invalid size", c)
    ELSE
      LET new_data_size == mul_safe(size, poly_modulus_degree, coeff_mod_count)
      IN  IF mul_safe_throws(size, poly_modulus_degree, coeff_mod_count, SizeMax)
          THEN Throw("ArithmeticOverflow", "unsigned overflow", c)
          ELSE Ok([c EXCEPT
                     !.data = data_resize(c.data, Min(new_data_size, Len(c.data.elems))),
                     !.size = size,
                     !.poly_modulus_degree = poly_modulus_degree,
                     !.coeff_mod_count = coeff_mod_count])

\* resize_internal without the exemption of size 0 from the lower bound.
resize_internal_rejects_zero(c, size, poly_modulus_degree, coeff_mod_count) ==
    IF size < SEAL_CIPHERTEXT_SIZE_MIN \/
       size > SEAL_CIPHERTEXT_SIZE_MAX
    THEN Throw("InvalidArgument", "invalid size", c)
    ELSE
      LET new_data_size == mul_safe(size, poly_modulus_degree, coeff_mod_count)
      IN  IF mul_safe_throws(size, poly_modulus_degree, coeff_mod_count, SizeMax)
          THEN Throw("ArithmeticOverflow", "unsigned overflow", c)
          ELSE Ok([c EXCEPT
                     !.data = data_resize(c.data, new_data_size),
                     !.size = size,
                     !.poly_modulus_degree = poly_modulus_degree,
                     !.coeff_mod_count = coeff_mod_count])

\* resize_internal with an unchecked product, which wraps modulo the width of
\* size_t.
resize_internal_wrapping(c, size, poly_modulus_degree, coeff_mod_count) ==
    IF (size < SEAL_CIPHERTEXT_SIZE_MIN /\ size /= 0) \/
       size > SEAL_CIPHERTEXT_SIZE_MAX
    THEN Throw("InvalidArgument", "invalid size", c)
    ELSE
      LET new_data_size ==
              mul_safe(size, poly_modulus_degree, coeff_mod_count) % (SizeMax + 1)
      IN  Ok([c EXCEPT
                 !.data = data_resize(c.data, new_data_size),
                 !.size = size,
                 !.poly_modulus_degree = poly_modulus_degree,
                 !.coeff_mod_count = coeff_mod_count])

\* Ciphertext::resize_internal
resize_internal(c, size, poly_modulus_degree, coeff_mod_count) ==
    IF (size < SEAL_CIPHERTEXT_SIZE_MIN /\ size /= 0) \/
       size > SEAL_CIPHERTEXT_SIZE_MAX
    THEN Throw("InvalidArgument", "invalid size", c)
    ELSE
      LET new_data_size == mul_safe(size, poly_modulus_degree, coeff_mod_count)
      IN  IF mul_safe_throws(size, poly_modulus_degree, coeff_mod_count, SizeMax)
          THEN Throw("ArithmeticOverflow", "unsigned overflow", c)
          ELSE Ok([c EXCEPT
                     !.data = data_resize(c.data, new_data_size),
                     !.size = size,
                     !.poly_modulus_degree = poly_modulus_degree,
                     !.coeff_mod_count = coeff_mod_count])

\* Ciphertext::resize
resize(c, context, parms_id, size) ==
    IF context = "null"
    THEN Throw("InvalidArgument", "invalid context", c)
    ELSE IF context = "unset"
    THEN Throw("InvalidArgument", "encryption parameters are not set correctly", c)
    ELSE IF IsNull(context_data(parms_id))
    THEN Throw("InvalidArgument", "parms_id is not valid for encryption parameters", c)
    ELSE
      LET parms == context_data(parms_id)
      IN  resize_internal([c EXCEPT !.parms_id = parms_id], size,
                          parms.poly_modulus_degree, Len(parms.coeff_modulus))

\* Ciphertext::operator=(const Ciphertext &assign) on the object c; self says
\* that this == &assign. The set of ways the call can end: std::copy writes
\* assign.data_.size() elements from data_.begin() on, whatever length the
\* resize gave the target. Elements written past data_.size() but inside the
\* reserved storage are not part of the buffer; a write past the reserved
\* storage is outside the allocation, and the call may complete or crash.
operator_assign(c, assign, self) ==
    IF self
    THEN {Ok(c)}
    ELSE
      LET c1 == [c EXCEPT !.parms_id = assign.parms_id,
                          !.is_ntt_form = assign.is_ntt_form,
                          !.scale = assign.scale]
          r == resize_internal(c1, assign.size, assign.poly_modulus_degree,
                               assign.coeff_mod_count)
          n == Len(assign.data.elems)
          m == Len(r.ct.data.elems)
          copied == [i \in 1..m |-> IF i <= n THEN assign.data.elems[i]
                                               ELSE r.ct.data.elems[i]]
          done == [r.ct EXCEPT !.data.elems = copied]
          past == [err |-> "none", msg |-> "copy past data_.end()", ct |-> done]
      IN  IF r.err /= "none"
          THEN {r}
          ELSE IF n <= m
          THEN {Ok(done)}
          ELSE IF n <= r.ct.data.capacity
          THEN {past}
          ELSE {past, Throw("Crash", "copy past data_.end()", done)}

\* is_metadata_valid_for comparing the modulus count only.
is_metadata_valid_for_count_only(c, context) ==
    IF context = "null" \/ context = "unset"
    THEN FALSE
    ELSE IF IsNull(context_data(c.parms_id))
    THEN FALSE
    ELSE Len(context_data(c.parms_id).coeff_modulus) = c.coeff_mod_count

\* Ciphertext::is_metadata_valid_for
is_metadata_valid_for(c, context) ==
    IF context = "null" \/ context = "unset"
    THEN FALSE
    ELSE IF IsNull(context_data(c.parms_id))
    THEN FALSE
    ELSE
      LET parms == context_data(c.parms_id)
      IN  IF Len(parms.coeff_modulus) /= c.coeff_mod_count \/
             parms.poly_modulus_degree /= c.poly_modulus_degree
          THEN FALSE
          ELSE TRUE

\* The 0-based offset from data() of the element the scan of is_valid_for
\* reads for polynomial i, modulus j, coefficient k: ptr advances once per k.
ScanOffset(c, i, j, k) == (i * c.coeff_mod_count + j) * c.poly_modulus_degree + k

\* Ciphertext::is_valid_for: the set of values the call can return. The scan
\* reads size * coeff_mod_count * poly_modulus_degree elements in increasing
\* address order; an element at or past data_.size() is outside the array's
\* elements, its value is indeterminate, and so is the comparison on it.
is_valid_for(c, context) ==
    IF context = "null" \/ context = "unset"
    THEN {FALSE}
    ELSE IF IsNull(context_data(c.parms_id))
    THEN {FALSE}
    ELSE
      LET parms == context_data(c.parms_id)
          coeff_modulus == parms.coeff_modulus
          I == 0..(c.size - 1)
          J == 0..(c.coeff_mod_count - 1)
          K == 0..(c.poly_modulus_degree - 1)
          inside(i, j, k) == ScanOffset(c, i, j, k) < Len(c.data.elems)
      IN  IF Len(coeff_modulus) /= c.coeff_mod_count \/
             parms.poly_modulus_degree /= c.poly_modulus_degree
          THEN {FALSE}
          ELSE IF \E i \in I, j \in J, k \in K :
                     /\ inside(i, j, k)
                     /\ c.data.elems[ScanOffset(c, i, j, k) + 1] >= coeff_modulus[j + 1]
          THEN {FALSE}
          ELSE IF \E i \in I, j \in J, k \in K : ~inside(i, j, k)
          THEN {TRUE, FALSE}
          ELSE {TRUE}

\* The offsets from data() that the scan of is_valid_for is certain to read
\* once the shape check has passed: the loops visit the offsets in increasing
\* order and return at the first element inside the buffer that is not below
\* its modulus; with no such element they run through the buffer and, when
\* the shape product is larger than data_.size(), read on at data_.size().
ScanReads(c, coeff_modulus) ==
    LET I == 0..(c.size - 1)
        J == 0..(c.coeff_mod_count - 1)
        K == 0..(c.poly_modulus_degree - 1)
        length == Len(c.data.elems)
        fails == {ScanOffset(c, t[1], t[2], t[3]) : t \in
                     {u \in I \X J \X K :
                         /\ ScanOffset(c, u[1], u[2], u[3]) < length
                         /\ c.data.elems[ScanOffset(c, u[1], u[2], u[3]) + 1] >=
                                coeff_modulus[u[2] + 1]}}
        stop == IF fails /= {}
                THEN CHOOSE n \in fails : \A m \in fails : n <= m
                ELSE length
    IN  {n \in {ScanOffset(c, t[1], t[2], t[3]) : t \in I \X J \X K} : n <= stop}

\* --------------------------------------------------------- wire format

\* The least significant byte of v, and v shifted right by one byte.
LowByte(v) == v % Pow2(ByteBits)

\* The n bytes of the unsigned integer v as stream.write lays them out
\* (little-endian object representation).
ToBytes(v, n) == [i \in 1..n |-> LowByte(v \div Pow2(ByteBits * (i - 1)))]

\* The unsigned integer whose object representation is the bytes bs.
RECURSIVE FromBytes(_)
FromBytes(bs) ==
    IF bs = <<>> THEN 0 ELSE Head(bs) + Pow2(ByteBits) * FromBytes(Tail(bs))

RECURSIVE Concat(_)
Concat(seqs) == IF seqs = <<>> THEN <<>> ELSE Head(seqs) \o Concat(Tail(seqs))

\* sizeof(parms_id_type)
ParmsIdBytes == ParmsIdWords * U64Bytes

\* IntArray::save: the element count as a uint64_t, then the elements.
data_save(d) ==
    <<ToBytes(Len(d.elems), U64Bytes),
      Concat([i \in 1..Len(d.elems) |-> ToBytes(d.elems[i], U64Bytes)])>>

\* save_writes with poly_modulus_degree and coeff_mod_count written in the
\* other order.
save_writes_count_first(c) ==
    <<Concat([w \in 1..ParmsIdWords |-> ToBytes(c.parms_id[w], U64Bytes)]),
      <<IF c.is_ntt_form THEN 1 ELSE 0>>,
      ToBytes(c.size, U64Bytes),
      ToBytes(c.coeff_mod_count, U64Bytes),
      ToBytes(c.poly_modulus_degree, U64Bytes),
      ToBytes(c.scale, U64Bytes)>> \o data_save(c.data)

\* save_writes with size written before is_ntt_form.
save_writes_size_before_ntt(c) ==
    <<Concat([w \in 1..ParmsIdWords |-> ToBytes(c.parms_id[w], U64Bytes)]),
      ToBytes(c.size, U64Bytes),
      <<IF c.is_ntt_form THEN 1 ELSE 0>>,
      ToBytes(c.poly_modulus_degree, U64Bytes),
      ToBytes(c.coeff_mod_count, U64Bytes),
      ToBytes(c.scale, U64Bytes)>> \o data_save(c.data)

\* The byte strings Ciphertext::save hands to the stream, one per write, in
\* the order of the writes.
save_writes(c) ==
    <<Concat([w \in 1..ParmsIdWords |-> ToBytes(c.parms_id[w], U64Bytes)]),
      <<IF c.is_ntt_form THEN 1 ELSE 0>>,
      ToBytes(c.size, U64Bytes),
      ToBytes(c.poly_modulus_degree, U64Bytes),
      ToBytes(c.coeff_mod_count, U64Bytes),
      ToBytes(c.scale, U64Bytes)>> \o data_save(c.data)

\* ------------------------------------------------------------ std::ios

\* The mask save and unsafe_load install: ios_base::badbit | ios_base::failbit.
StrictMask == {"badbit", "failbit"}

\* basic_ios::exceptions(except): stores the mask, then calls clear(rdstate()).
ios_exceptions(s, except) == [s EXCEPT !.exceptions = except]

\* basic_ios::setstate(bits), as a failed write or read calls it.
ios_setstate(s, bits) == [s EXCEPT !.rdstate = @ \cup bits]

\* clear(state) throws ios_base::failure when a bit of the state is in the mask.
ios_throws(s) == s.rdstate \cap s.exceptions /= {}

IOFailure(s) == [err |-> "IOFault", msg |-> "ios_base::failure", stream |-> s]

\* Exception masks the caller's stream carries into save and unsafe_load.
Masks == {{}, {"badbit"}, {"eofbit", "failbit"}}

EmptyStream ==
    [bytes |-> <<>>, origin |-> "empty", saved |-> DefaultCiphertext,
     exceptions |-> {}, rdstate |-> {}]

\* save with a catch block that rethrows without restoring the mask.
save_no_restore_on_throw(c, s, fault) ==
    LET old_except_mask == s.exceptions
        s1 == ios_exceptions(s, StrictMask)
        writes == save_writes(c)
        written == IF fault = 0 THEN writes ELSE SubSeq(writes, 1, fault - 1)
        s2 == [s1 EXCEPT !.bytes = @ \o Concat(written)]
        s3 == ios_exceptions(s2, old_except_mask)
    IN  IF ios_throws(s1)
        THEN IOFailure(s1)
        ELSE IF fault /= 0
        THEN IOFailure(ios_setstate(s2, {"badbit"}))
        ELSE IF ios_throws(s3)
        THEN IOFailure(s3)
        ELSE [err |-> "none", msg |-> "", stream |-> s3]

\* Ciphertext::save on the stream s whose write number fault fails (0: none
\* fails): the stream when the call returns or throws, and how it ended. A
\* write that fails sets badbit, which throws under the strict mask; the
\* catch block restores the mask and rethrows.
save(c, s, fault) ==
    LET old_except_mask == s.exceptions
        s1 == ios_exceptions(s, StrictMask)
        writes == save_writes(c)
        written == IF fault = 0 THEN writes ELSE SubSeq(writes, 1, fault - 1)
        s2 == [s1 EXCEPT !.bytes = @ \o Concat(written)]
        s3 == ios_exceptions(s2, old_except_mask)
    IN  IF ios_throws(s1)
        THEN IOFailure(ios_exceptions(s1, old_except_mask))
        ELSE IF fault /= 0
        THEN IOFailure(ios_exceptions(ios_setstate(s2, {"badbit"}),
                                      old_except_mask))
        ELSE IF ios_throws(s3)
        THEN IOFailure(s3)
        ELSE [err |-> "none", msg |-> "", stream |-> s3]

\* stream.read of n bytes at offset pos (0-based) succeeds iff they are there.
CanRead(bytes, pos, n) == pos + n <= Len(bytes)

ReadBytes(bytes, pos, n) == SubSeq(bytes, pos + 1, pos + n)

ReadU64(bytes, pos) == FromBytes(ReadBytes(bytes, pos, U64Bytes))

\* Offsets of the header fields and of the payload in the stream.
OffsetNtt == ParmsIdBytes
OffsetSize == OffsetNtt + 1
OffsetDegree == OffsetSize + U64Bytes
OffsetCount == OffsetDegree + U64Bytes
OffsetScale == OffsetCount + U64Bytes
OffsetData == OffsetScale + U64Bytes

\* IntArray::load at offset pos: the element count, cast to size_t, then
\* that many elements into a fresh array.
data_load(bytes, pos) ==
    IF ~CanRead(bytes, pos, U64Bytes)
    THEN [err |-> "IOFault", msg |-> "ios_base::failure", data |-> EmptyData]
    ELSE
      LET count == ReadU64(bytes, pos)
      IN  IF ~safe_cast_ok(count, SizeMax)
          THEN [err |-> "ArithmeticOverflow", msg |-> "cast failed", data |-> EmptyData]
          ELSE IF ~CanRead(bytes, pos + U64Bytes, count * U64Bytes)
          THEN [err |-> "IOFault", msg |-> "ios_base::failure", data |-> EmptyData]
          ELSE [err |-> "none", msg |-> "",
                data |-> [elems |-> [i \in 1..count |->
                                       ReadU64(bytes, pos + U64Bytes * i)],
                          capacity |-> count]]

\* The try block without the comparison of the loaded length to the shape
\* product.
unsafe_load_try_no_length_check(c, bytes) ==
    IF ~CanRead(bytes, 0, OffsetData)
    THEN Throw("IOFault", "ios_base::failure", c)
    ELSE
      LET parms_id == [w \in 1..ParmsIdWords |-> ReadU64(bytes, U64Bytes * (w - 1))]
          is_ntt_form_byte == bytes[OffsetNtt + 1]
          size64 == ReadU64(bytes, OffsetSize)
          poly_modulus_degree64 == ReadU64(bytes, OffsetDegree)
          coeff_mod_count64 == ReadU64(bytes, OffsetCount)
          scale == ReadU64(bytes, OffsetScale)
          new_data == data_load(bytes, OffsetData)
          expected == mul_safe(size64, poly_modulus_degree64, coeff_mod_count64)
          c1 == [c EXCEPT !.parms_id = parms_id,
                          !.is_ntt_form = (is_ntt_form_byte /= 0)]
          c2 == [c1 EXCEPT !.size = size64]
          c3 == [c2 EXCEPT !.poly_modulus_degree = poly_modulus_degree64]
      IN  IF new_data.err /= "none"
          THEN Throw(new_data.err, new_data.msg, c)
          ELSE IF mul_safe_throws(size64, poly_modulus_degree64, coeff_mod_count64,
                                  U64Max)
          THEN Throw("ArithmeticOverflow", "unsigned overflow", c)
          ELSE IF ~safe_cast_ok(size64, SizeMax)
          THEN Throw("ArithmeticOverflow", "cast failed", c1)
          ELSE IF ~safe_cast_ok(poly_modulus_degree64, SizeMax)
          THEN Throw("ArithmeticOverflow", "cast failed", c2)
          ELSE IF ~safe_cast_ok(coeff_mod_count64, SizeMax)
          THEN Throw("ArithmeticOverflow", "cast failed", c3)
          ELSE Ok([c3 EXCEPT !.coeff_mod_count = coeff_mod_count64,
                             !.scale = scale,
                             !.data = new_data.data])

\* The try block of Ciphertext::unsafe_load on a stream holding bytes. The
\* six header reads throw, before anything is assigned, iff the stream ends
\* inside the header.
unsafe_load_try(c, bytes) ==
    IF ~CanRead(bytes, 0, OffsetData)
    THEN Throw("IOFault", "ios_base::failure", c)
    ELSE
      LET parms_id == [w \in 1..ParmsIdWords |-> ReadU64(bytes, U64Bytes * (w - 1))]
          is_ntt_form_byte == bytes[OffsetNtt + 1]
          size64 == ReadU64(bytes, OffsetSize)
          poly_modulus_degree64 == ReadU64(bytes, OffsetDegree)
          coeff_mod_count64 == ReadU64(bytes, OffsetCount)
          scale == ReadU64(bytes, OffsetScale)
          new_data == data_load(bytes, OffsetData)
          expected == mul_safe(size64, poly_modulus_degree64, coeff_mod_count64)
          c1 == [c EXCEPT !.parms_id = parms_id,
                          !.is_ntt_form = (is_ntt_form_byte /= 0)]
          c2 == [c1 EXCEPT !.size = size64]
          c3 == [c2 EXCEPT !.poly_modulus_degree = poly_modulus_degree64]
      IN  IF new_data.err /= "none"
          THEN Throw(new_data.err, new_data.msg, c)
          ELSE IF mul_safe_throws(size64, poly_modulus_degree64, coeff_mod_count64,
                                  U64Max)
          THEN Throw("ArithmeticOverflow", "unsigned overflow", c)
          ELSE IF unsigned_neq(Len(new_data.data.elems), expected)
          THEN Throw("CorruptData", "ciphertext data is invalid", c)
          ELSE IF ~safe_cast_ok(size64, SizeMax)
          THEN Throw("ArithmeticOverflow", "cast failed", c1)
          ELSE IF ~safe_cast_ok(poly_modulus_degree64, SizeMax)
          THEN Throw("ArithmeticOverflow", "cast failed", c2)
          ELSE IF ~safe_cast_ok(coeff_mod_count64, SizeMax)
          THEN Throw("ArithmeticOverflow", "cast failed", c3)
          ELSE Ok([c3 EXCEPT !.coeff_mod_count = coeff_mod_count64,
                             !.scale = scale,
                             !.data = new_data.data])

\* Ciphertext::unsafe_load from the stream s: the object and the stream when
\* the call returns or throws, and how it ended. A read that fails sets
\* eofbit and failbit, which throws under the strict mask; the catch block
\* restores the mask and rethrows.
unsafe_load(c, s) ==
    LET old_except_mask == s.exceptions
        s1 == ios_exceptions(s, StrictMask)
        r == unsafe_load_try(c, s1.bytes)
        s2 == IF r.err = "IOFault"
              THEN ios_setstate(s1, {"eofbit", "failbit"}) ELSE s1
        s3 == ios_exceptions(s2, old_except_mask)
    IN  IF ios_throws(s1)
        THEN [err |-> "IOFault", msg |-> "ios_base::failure", ct |-> c,
              stream |-> ios_exceptions(s1, old_except_mask)]
        ELSE IF r.err /= "none"
        THEN [err |-> r.err, msg |-> r.msg, ct |-> r.ct, stream |-> s3]
        ELSE IF ios_throws(s3)
        THEN [err |-> "IOFault", msg |-> "ios_base::failure", ct |-> r.ct,
              stream |-> s3]
        ELSE [err |-> "none", msg |-> "", ct |-> r.ct, stream |-> s3]

\* -------------------------------------------------------------- inputs

\* Fingerprints a caller passes: the zero fingerprint (not registered) and
\* the registered ones.
ParmsIdInputs == {ParmsId(k) : k \in {0} \cup RegisteredKeys}

\* Sizes a caller passes: 0, below the minimum, the whole range, above the maximum.
SizeInputs == 0..(SEAL_CIPHERTEXT_SIZE_MAX + 1)

\* The argument lists of reserve and resize. A call that throws before it
\* reads an argument is enumerated once, with that argument zero.
ShapeArgs ==
    {a \in [context : Contexts, parms_id : ParmsIdInputs, size : SizeInputs] :
        /\ a.context /= "valid" => a.parms_id = parms_id_zero
        /\ a.parms_id = parms_id_zero => a.size = 0}

\* Coefficient values external code stores: 0 is below every modulus, 2 is
\* below the modulus 3 and not below the modulus 2.
CoeffInputs == {0, 2}

NonZeros(elems) == Cardinality({i \in 1..Len(elems) : elems[i] /= 0})

\* -------------------------------------------------------------- actions

NoCall == [op |-> "init", who |-> 0, from |-> 0, err |-> "none", msg |-> "",
           context |-> "null", parms_id |-> parms_id_zero, size |-> 0,
           ret |-> FALSE]

Called(name, o, r) == [NoCall EXCEPT !.op = name, !.who = o, !.err = r.err,
                                     !.msg = r.msg]

WithArgs(call, a) == [call EXCEPT !.context = a.context, !.parms_id = a.parms_id,
                                  !.size = a.size]

Reserve(o) ==
    \E a \in ShapeArgs :
        LET r == reserve(ct[o], a.context, a.parms_id, a.size)
        IN  /\ ct' = [ct EXCEPT ![o] = r.ct]
            /\ last' = WithArgs(Called("reserve", o, r), a)
            /\ UNCHANGED <<size_type_bytes, stream>>

Resize(o) ==
    \E a \in ShapeArgs :
        LET r == resize(ct[o], a.context, a.parms_id, a.size)
        IN  /\ ct' = [ct EXCEPT ![o] = r.ct]
            /\ last' = WithArgs(Called("resize", o, r), a)
            /\ UNCHANGED <<size_type_bytes, stream>>

\* External code stores a coefficient through Ciphertext::data().
WriteCoeff(o) ==
    \E i \in 1..Len(ct[o].data.elems), v \in CoeffInputs :
        LET elems == [ct[o].data.elems EXCEPT ![i] = v]
        IN  /\ elems /= ct[o].data.elems
            /\ NonZeros(elems) <= MaxNonZero
            /\ ct' = [ct EXCEPT ![o].data.elems = elems]
            /\ last' = [NoCall EXCEPT !.op = "write", !.who = o]
            /\ UNCHANGED <<size_type_bytes, stream>>

IsMetadataValidFor(o) ==
    \E context \in Contexts :
        /\ last' = [NoCall EXCEPT !.op = "is_metadata_valid_for", !.who = o,
                                  !.context = context,
                                  !.ret = is_metadata_valid_for(ct[o], context)]
        /\ UNCHANGED <<size_type_bytes, ct, stream>>

IsValidFor(o) ==
    \E context \in Contexts :
        \E ret \in is_valid_for(ct[o], context) :
            /\ last' = [NoCall EXCEPT !.op = "is_valid_for", !.who = o,
                                      !.context = context, !.ret = ret]
            /\ UNCHANGED <<size_type_bytes, ct, stream>>

\* The argument lists the codec scenario builds its source object with: a
\* resize to a consistent shape (set 1 with data, set 3 empty with a degree
\* of several bytes), a resize to set 3 whose product overflows (with a size
\* inside the range and with one above it), and a reserve that rebinds the
\* object to set 2 or asks set 3 for a capacity whose product overflows.
CodecResizeArgs ==
    {a \in ShapeArgs : \/ a.parms_id = ParmsId(1) /\ a.size \in {0, SEAL_CIPHERTEXT_SIZE_MIN}
                       \/ a.parms_id = ParmsId(3) /\
                              a.size \in {0, SEAL_CIPHERTEXT_SIZE_MIN,
                                          SEAL_CIPHERTEXT_SIZE_MAX + 1}}

CodecReserveArgs ==
    {a \in ShapeArgs : \/ a.parms_id = ParmsId(2) /\ a.size = SEAL_CIPHERTEXT_SIZE_MIN
                       \/ a.parms_id = ParmsId(3) /\ a.size = SEAL_CIPHERTEXT_SIZE_MAX}

\* Values external code stores in is_ntt_form() and scale().
ScaleInputs == {0, 5}

\* Number of stream.write calls of one save: six header fields, the element
\* count and the elements.
SaveWrites == Len(save_writes(DefaultCiphertext))

\* Values bytes corrupted in transit decode to: zero, a small count, the
\* smallest value a 4-byte size_t cannot hold, the largest uint64_t.
CorruptValues == {0, SEAL_CIPHERTEXT_SIZE_MAX, Pow2(4 * ByteBits), U64Max}

CorruptOffsets == {OffsetSize, OffsetDegree, OffsetCount, OffsetData}

\* bytes with the uint64_t at offset pos replaced by v.
PutU64(bytes, pos, v) ==
    LET field == ToBytes(v, U64Bytes)
    IN  [i \in 1..Len(bytes) |->
            IF pos < i /\ i <= pos + U64Bytes THEN field[i - pos] ELSE bytes[i]]

BuildSource(o) ==
    /\ stream.origin = "empty"
    /\ \/ \E a \in CodecResizeArgs :
              LET r == resize(ct[o], a.context, a.parms_id, a.size)
              IN  /\ ct' = [ct EXCEPT ![o] = r.ct]
                  /\ last' = WithArgs(Called("resize", o, r), a)
       \/ \E a \in CodecReserveArgs :
              LET r == reserve(ct[o], a.context, a.parms_id, a.size)
              IN  /\ ct' = [ct EXCEPT ![o] = r.ct]
                  /\ last' = WithArgs(Called("reserve", o, r), a)
       \/ \E i \in 1..Len(ct[o].data.elems), v \in CoeffInputs :
              LET elems == [ct[o].data.elems EXCEPT ![i] = v]
              IN  /\ elems /= ct[o].data.elems
                  /\ NonZeros(elems) <= MaxNonZero
                  /\ ct' = [ct EXCEPT ![o].data.elems = elems]
                  /\ last' = [NoCall EXCEPT !.op = "write", !.who = o]
       \/ \E ntt \in BOOLEAN, scale \in ScaleInputs :
              /\ ct' = [ct EXCEPT ![o].is_ntt_form = ntt, ![o].scale = scale]
              /\ last' = [NoCall EXCEPT !.op = "set", !.who = o]
    /\ UNCHANGED <<size_type_bytes, stream>>

\* save writes to a fresh output stream.
Save(o) ==
    \E fault \in 0..SaveWrites :
        LET r == save(ct[o], stream, fault)
        IN  /\ stream.origin = "empty"
            /\ stream' = [r.stream EXCEPT
                              !.origin = IF r.err = "none" THEN "save" ELSE "partial",
                              !.saved = ct[o]]
            /\ last' = [NoCall EXCEPT !.op = "save", !.who = o, !.err = r.err,
                                      !.msg = r.msg, !.size = fault]
            /\ UNCHANGED <<size_type_bytes, ct>>

\* The caller resets the state bits of the stream: stream.clear().
ClearState ==
    /\ stream.rdstate /= {}
    /\ stream' = [stream EXCEPT !.rdstate = {}]
    /\ last' = [NoCall EXCEPT !.op = "clear"]
    /\ UNCHANGED <<size_type_bytes, ct>>

\* The bytes of a complete save are corrupted in transit: one integer field
\* of the header, or the element count of the payload, carries another value.
Corrupt ==
    /\ stream.origin = "save"
    /\ \E pos \in CorruptOffsets, v \in CorruptValues :
           /\ ReadU64(stream.bytes, pos) /= v
           /\ stream' = [stream EXCEPT !.bytes = PutU64(stream.bytes, pos, v),
                                       !.origin = "corrupt"]
    /\ last' = [NoCall EXCEPT !.op = "corrupt"]
    /\ UNCHANGED <<size_type_bytes, ct>>

UnsafeLoad(o) ==
    LET r == unsafe_load(ct[o], stream)
    IN  /\ ct' = [ct EXCEPT ![o] = r.ct]
        /\ stream' = r.stream
        /\ last' = Called("unsafe_load", o, r)
        /\ UNCHANGED size_type_bytes

\* The argument lists the copy scenario builds its source object with:
\* resizes to sets 1 and 2, a reserve that rebinds the object to the larger
\* set 2, and a reserve that rebinds it to the smaller set 1.
CopyResizeArgs ==
    {a \in ShapeArgs : \/ a.parms_id = ParmsId(1) /\ a.size \in {0, SEAL_CIPHERTEXT_SIZE_MIN}
                       \/ a.parms_id = ParmsId(2) /\ a.size = SEAL_CIPHERTEXT_SIZE_MIN}

CopyReserveArgs ==
    {a \in ShapeArgs : \/ a.parms_id = ParmsId(1) /\ a.size = SEAL_CIPHERTEXT_SIZE_MAX
                       \/ a.parms_id = ParmsId(2) /\ a.size = SEAL_CIPHERTEXT_SIZE_MIN}

\* Shapes of self-consistent byte streams that did not come from save: one
\* polynomial, and one polynomial more than SEAL_CIPHERTEXT_SIZE_MAX, of
\* degree 1 with 1 modulus, with as many zero coefficients as the product.
ForeignSizes == {1, SEAL_CIPHERTEXT_SIZE_MAX + 1}

ForeignCiphertext(size) ==
    [DefaultCiphertext EXCEPT
        !.parms_id = ParmsId(1), !.size = size,
        !.poly_modulus_degree = 1, !.coeff_mod_count = 1,
        !.data = data_resize(EmptyData, size)]

\* The targets of the copy scenario before the first assignment: a
\* default-constructed object, and one resized to two polynomials of set 2.
InitialTargets ==
    {DefaultCiphertext,
     resize(DefaultCiphertext, "valid", ParmsId(2), SEAL_CIPHERTEXT_SIZE_MIN).ct}

\* Object 2 has not been assigned to: it is an initial target, whatever
\* external code has stored in its buffer.
Unassigned(t) ==
    \E t0 \in InitialTargets : [t EXCEPT !.data.elems = t0.data.elems] = t0

\* The source is built before it is first assigned to object 2.
PrepareSource(o) ==
    /\ Unassigned(ct[2])
    /\ \/ \E a \in CopyResizeArgs :
              LET r == resize(ct[o], a.context, a.parms_id, a.size)
              IN  /\ ct' = [ct EXCEPT ![o] = r.ct]
                  /\ last' = WithArgs(Called("resize", o, r), a)
       \/ \E a \in CopyReserveArgs :
              LET r == reserve(ct[o], a.context, a.parms_id, a.size)
              IN  /\ ct' = [ct EXCEPT ![o] = r.ct]
                  /\ last' = WithArgs(Called("reserve", o, r), a)
       \/ /\ ~ct[o].is_ntt_form
          /\ ct' = [ct EXCEPT ![o].is_ntt_form = TRUE, ![o].scale = 5]
          /\ last' = [NoCall EXCEPT !.op = "set", !.who = o]
    /\ UNCHANGED <<size_type_bytes, stream>>

\* unsafe_load from a stream of its own that holds a self-consistent image.
LoadForeign(o) ==
    \E size \in ForeignSizes :
        LET bytes == Concat(save_writes(ForeignCiphertext(size)))
            r == unsafe_load(ct[o], [EmptyStream EXCEPT !.bytes = bytes])
        IN  /\ Unassigned(ct[2])
            /\ ct' = [ct EXCEPT ![o] = r.ct]
            /\ last' = [Called("unsafe_load", o, r) EXCEPT !.size = size]
            /\ UNCHANGED <<size_type_bytes, stream>>

\* External code stores a nonzero coefficient in the first or the last
\* element of the buffer.
WriteEnds(o) ==
    \E i \in {1, Len(ct[o].data.elems)} :
        LET elems == [ct[o].data.elems EXCEPT ![i] = 2]
        IN  /\ i >= 1
            /\ elems /= ct[o].data.elems
            /\ NonZeros(elems) <= MaxNonZero
            /\ ct' = [ct EXCEPT ![o].data.elems = elems]
            /\ last' = [NoCall EXCEPT !.op = "write", !.who = o]
            /\ UNCHANGED <<size_type_bytes, stream>>

\* a = b for the objects a and b (a = b itself when they are the same object).
Assign(a, b) ==
    \E r \in operator_assign(ct[a], ct[b], a = b) :
        /\ ct' = [ct EXCEPT ![a] = r.ct]
        /\ last' = [Called("assign", a, r) EXCEPT !.from = b]
        /\ UNCHANGED <<size_type_bytes, stream>>

\* ------------------------------------------------------- specifications

\* The shape manager and the validity checks on one Ciphertext, on the build
\* whose size_t is as wide as uint64_t.
Init ==
    /\ size_type_bytes = U64Bytes
    /\ ct = [o \in Objects |-> DefaultCiphertext]
    /\ stream = EmptyStream
    /\ last = NoCall

Next ==
    \/ Reserve(1)
    \/ Resize(1)
    \/ WriteCoeff(1)
    \/ IsMetadataValidFor(1)
    \/ IsValidFor(1)

Spec == Init /\ [][Next]_vars

\* The codec: object 1 is built and saved, the bytes may be corrupted, and
\* object 2 loads them, on both builds.
InitCodec ==
    /\ size_type_bytes \in SizeTypeWidths
    /\ ct = [o \in Objects |-> DefaultCiphertext]
    /\ stream \in {[EmptyStream EXCEPT !.exceptions = m] : m \in Masks}
    /\ last = NoCall

NextCodec ==
    \/ BuildSource(1)
    \/ Save(1)
    \/ Corrupt
    \/ ClearState
    \/ UnsafeLoad(2)

SpecCodec == InitCodec /\ [][NextCodec]_vars

\* Copy-assignment: object 1 is built by resize, reserve, external writes and
\* a load, and assigned to object 2 and to itself, on the build whose size_t
\* is as wide as uint64_t.
InitCopy ==
    /\ size_type_bytes = U64Bytes
    /\ ct \in {[o \in Objects |-> IF o = 1 THEN DefaultCiphertext ELSE t] :
                  t \in InitialTargets}
    /\ stream = EmptyStream
    /\ last = NoCall

NextCopy ==
    \/ PrepareSource(1)
    \/ LoadForeign(1)
    \/ WriteEnds(1)
    \/ WriteEnds(2)
    \/ Assign(2, 1)
    \/ Assign(1, 1)

SpecCopy == InitCopy /\ [][NextCopy]_vars

\* ---------------------------------------------------------- properties

\* The shape product of the stored header fields.
ShapeProduct(c) == c.size * c.poly_modulus_degree * c.coeff_mod_count

ShapeConsistent(c) == Len(c.data.elems) = ShapeProduct(c)

\* The call recorded in last resolved its fingerprint: the context was valid
\* and the fingerprint registered.
Resolved(call) == call.context = "valid" /\ ~IsNull(context_data(call.parms_id))

InSizeRange(n) == SEAL_CIPHERTEXT_SIZE_MIN <= n /\ n <= SEAL_CIPHERTEXT_SIZE_MAX

ResolutionErrors ==
    {"invalid context", "encryption parameters are not set correctly",
     "parms_id is not valid for encryption parameters"}

\* C1: after any sequence of completed public operations the buffer's length
\* equals size * ring_degree * modulus_count.
C1_BufferLengthIsShapeProduct == \A o \in Objects : ShapeConsistent(ct[o])

\* C2: after any sequence of completed public operations capacity >= size.
C2_CapacityAtLeastSize == \A o \in Objects : ct[o].size_capacity >= ct[o].size

\* C6: a successful resize ends with size equal to the requested size,
\* ring_degree and modulus_count those of the resolved parameter set, and the
\* buffer's length exactly their product, whatever the state before the call.
C6_ResizeSetsExactShape ==
    \A o \in Objects :
        (last.op = "resize" /\ last.who = o /\ last.err = "none") =>
            LET parms == context_data(last.parms_id)
            IN  /\ ~IsNull(parms)
                /\ last.size = 0 \/ InSizeRange(last.size)
                /\ ct[o].size = last.size
                /\ ct[o].poly_modulus_degree = parms.poly_modulus_degree
                /\ ct[o].coeff_mod_count = Len(parms.coeff_modulus)
                /\ Len(ct[o].data.elems) =
                       last.size * parms.poly_modulus_degree * Len(parms.coeff_modulus)

\* C6 witness: a resize to the largest size succeeded on an object that an
\* earlier reserve had bound to a smaller capacity and that holds a nonzero
\* coefficient from before.
C6_Witness ==
    /\ last.op = "resize" /\ last.who = 1 /\ last.err = "none"
    /\ last.size = SEAL_CIPHERTEXT_SIZE_MAX
    /\ last.parms_id = ParmsId(2)
    /\ ct[1].size_capacity = SEAL_CIPHERTEXT_SIZE_MIN
    /\ NonZeros(ct[1].data.elems) > 0

\* C7: after a successful reserve, capacity equals the requested size_capacity
\* and size equals the smaller of the size before the call and size_capacity.
C7_ReserveSetsCapacityAndClampsSize ==
    [][\A o \in Objects :
          (last'.op = "reserve" /\ last'.who = o /\ last'.err = "none") =>
              /\ ct'[o].size_capacity >= last'.size
              /\ ct'[o].size_capacity = last'.size
              /\ ct'[o].size = Min(ct[o].size, last'.size)]_vars

\* C7 witness: a reserve with the smallest capacity succeeded and left the
\* object with size equal to that capacity and a buffer that had been larger.
C7_Witness ==
    /\ last.op = "reserve" /\ last.who = 1 /\ last.err = "none"
    /\ last.size = SEAL_CIPHERTEXT_SIZE_MIN
    /\ ct[1].size = SEAL_CIPHERTEXT_SIZE_MIN
    /\ ct[1].data.capacity > Len(ct[1].data.elems)
    /\ Len(ct[1].data.elems) > 0

\* The stored residues of c, every element of the buffer, each below the
\* modulus of its slot: element n (0-based) belongs to polynomial
\* n \div (count * degree), modulus slot (n \div degree) % count.
AllStoredResiduesBelowModulus(c, coeff_modulus) ==
    \A n \in 0..(Len(c.data.elems) - 1) :
        c.data.elems[n + 1] <
            coeff_modulus[((n \div c.poly_modulus_degree) % c.coeff_mod_count) + 1]

\* C8: is_valid_for returns true if and only if the shape check passes and
\* every stored residue is below the modulus of its slot.
C8_IsValidForIffShapeAndResidues ==
    \A o \in Objects :
        (last.op = "is_valid_for" /\ last.who = o) =>
            (last.ret <=>
                /\ is_metadata_valid_for(ct[o], last.context)
                /\ AllStoredResiduesBelowModulus(
                       ct[o], context_data(ct[o].parms_id).coeff_modulus))

\* C9: a reserve or resize that resolved its fingerprint and then failed on
\* the size range or on overflow leaves the fingerprint equal to the resolved
\* one and everything else as it was; one that failed in resolution leaves the
\* object as it was.
C9_FingerprintSetBeforeValidation ==
    [][\A o \in Objects :
          (last'.op \in {"reserve", "resize"} /\ last'.who = o) =>
              /\ (last'.msg \in {"invalid size_capacity", "invalid size"} =>
                     /\ last'.err = "InvalidArgument"
                     /\ ct'[o] = [ct[o] EXCEPT !.parms_id = last'.parms_id])
              /\ (last'.err = "ArithmeticOverflow" =>
                     ct'[o] = [ct[o] EXCEPT !.parms_id = last'.parms_id])
              /\ (last'.msg \in ResolutionErrors =>
                     /\ last'.err = "InvalidArgument"
                     /\ ct'[o] = ct[o])
              /\ (last'.err /= "none" <=>
                     \/ last'.msg \in {"invalid size_capacity", "invalid size"}
                     \/ last'.err = "ArithmeticOverflow"
                     \/ last'.msg \in ResolutionErrors)]_vars

\* C9 witness: a reserve failed on its size range and the object carries the
\* fingerprint of the call with the shape of another parameter set.
C9_Witness ==
    /\ last.op = "reserve" /\ last.who = 1
    /\ last.msg = "invalid size_capacity"
    /\ ct[1].parms_id = last.parms_id
    /\ ct[1].parms_id = ParmsId(2)
    /\ ct[1].coeff_mod_count = Len(ContextData(1).coeff_modulus)
    /\ ct[1].size > 0

\* C10: once the fingerprint is resolved, reserve fails with InvalidArgument
\* exactly for a size_capacity outside [MIN, MAX], and resize exactly for a
\* size that is neither 0 nor inside [MIN, MAX].
C10_SizeRangeValidation ==
    /\ (last.op = "reserve" /\ ~InSizeRange(last.size)) => last.err = "InvalidArgument"
    /\ (last.op = "resize" /\ last.size /= 0 /\ ~InSizeRange(last.size)) =>
           last.err = "InvalidArgument"
    /\ (last.op = "reserve" /\ Resolved(last)) =>
           /\ ~InSizeRange(last.size) =>
                  last.err = "InvalidArgument" /\ last.msg = "invalid size_capacity"
           /\ InSizeRange(last.size) => last.err /= "InvalidArgument"
    /\ (last.op = "resize" /\ Resolved(last)) =>
           /\ (last.size /= 0 /\ ~InSizeRange(last.size)) =>
                  last.err = "InvalidArgument" /\ last.msg = "invalid size"
           /\ (last.size = 0 \/ InSizeRange(last.size)) => last.err /= "InvalidArgument"

\* C10 witness: reserve rejected the capacity 0, with a resolved fingerprint,
\* on an object that a resize to 0 had been accepted on before.
C10_Witness ==
    /\ last.op = "reserve" /\ Resolved(last)
    /\ last.size = 0 /\ last.msg = "invalid size_capacity"
    /\ ct[1].size = 0
    /\ ct[1].data.capacity > 0

\* The fields save and unsafe_load carry.
Carried(c) ==
    [parms_id |-> c.parms_id, is_ntt_form |-> c.is_ntt_form, size |-> c.size,
     poly_modulus_degree |-> c.poly_modulus_degree,
     coeff_mod_count |-> c.coeff_mod_count, scale |-> c.scale,
     elems |-> c.data.elems]

\* The bytes decode: the header is complete and the payload loads.
Decodes(bytes) ==
    CanRead(bytes, 0, OffsetData) /\ data_load(bytes, OffsetData).err = "none"

\* The stream is in a good state and its bytes decode.
StreamDecodes(s) == s.rdstate = {} /\ Decodes(s.bytes)

DecodedLength(bytes) == Len(data_load(bytes, OffsetData).data.elems)

\* n = a * b * c over the naturals, for n, a, b, c at most U64Max, without
\* forming a product that is too large to compute.
IsProduct(n, a, b, c) ==
    IF a = 0 \/ b = 0 \/ c = 0 THEN n = 0
    ELSE /\ MulFits(a, b, U64Max)
         /\ MulFits(a * b, c, U64Max)
         /\ n = a * b * c

\* The decoded buffer length differs from the decoded shape product.
LengthMismatch(bytes) ==
    ~IsProduct(DecodedLength(bytes), ReadU64(bytes, OffsetSize),
               ReadU64(bytes, OffsetDegree), ReadU64(bytes, OffsetCount))

DecodedProductOverflows(bytes) ==
    mul_safe_throws(ReadU64(bytes, OffsetSize), ReadU64(bytes, OffsetDegree),
                    ReadU64(bytes, OffsetCount), U64Max)

\* C3: an unsafe_load that fails, at whatever point, leaves the target as it
\* was before the call.
C3_FailedLoadLeavesTargetUnchanged ==
    [][\A o \in Objects :
          (last'.op = "unsafe_load" /\ last'.who = o /\ last'.err /= "none") =>
              ct'[o] = ct[o]]_vars

\* C4 as stated: a stream whose decoded length differs from the decoded shape
\* product fails with CorruptData and leaves the target unchanged, and a
\* successful load leaves the buffer length equal to the shape product.
C4_MismatchFailsWithCorruptData ==
    [][\A o \in Objects :
          (last'.op = "unsafe_load" /\ last'.who = o) =>
              /\ (StreamDecodes(stream) /\ LengthMismatch(stream.bytes)) =>
                     last'.err = "CorruptData" /\ ct'[o] = ct[o]
              /\ last'.err = "none" => ShapeConsistent(ct'[o])]_vars

\* C4 amended: such a stream fails and leaves the target unchanged, with
\* ArithmeticOverflow when the overflow-checked product of the decoded
\* fields overflows uint64_t and with CorruptData otherwise; a successful
\* load leaves the buffer length equal to the shape product.
C4_MismatchFailsTargetUnchanged ==
    [][\A o \in Objects :
          (last'.op = "unsafe_load" /\ last'.who = o) =>
              /\ (StreamDecodes(stream) /\ LengthMismatch(stream.bytes)) =>
                     /\ ct'[o] = ct[o]
                     /\ last'.err =
                            IF DecodedProductOverflows(stream.bytes)
                            THEN "ArithmeticOverflow" ELSE "CorruptData"
              /\ last'.err = "none" =>
                     /\ ShapeConsistent(ct'[o])
                     /\ ~LengthMismatch(stream.bytes)]_vars

\* C4 witness: a load into an object that an earlier load had filled failed
\* with CorruptData.
C4_Witness ==
    /\ last.op = "unsafe_load" /\ last.who = 2
    /\ last.err = "CorruptData"
    /\ Decodes(stream.bytes) /\ LengthMismatch(stream.bytes)
    /\ ct[2].size >= SEAL_CIPHERTEXT_SIZE_MIN
    /\ NonZeros(ct[2].data.elems) > 0

\* C5: loading the bytes a save of a shape-consistent Ciphertext produced
\* succeeds and reproduces fingerprint, is_ntt_form, size, ring_degree,
\* modulus_count, scale and the buffer contents.
C5_SaveLoadRoundTrip ==
    \A o \in Objects :
        (/\ last.op = "unsafe_load" /\ last.who = o
         /\ stream.origin = "save"
         /\ ShapeConsistent(stream.saved)) =>
            /\ last.err = "none"
            /\ Carried(ct[o]) = Carried(stream.saved)

\* C5 witness: a round trip of an object with two polynomials, a nonzero
\* coefficient, is_ntt_form set and a nonzero scale.
C5_Witness ==
    /\ last.op = "unsafe_load" /\ last.who = 2 /\ last.err = "none"
    /\ stream.origin = "save"
    /\ ShapeConsistent(stream.saved)
    /\ stream.saved.size = SEAL_CIPHERTEXT_SIZE_MIN
    /\ NonZeros(stream.saved.data.elems) > 0
    /\ stream.saved.is_ntt_form
    /\ stream.saved.scale /= 0

\* a * b * c, over the naturals, is larger than max (a, b, c at most U64Max).
NotRepresentable(a, b, c, max) ==
    /\ a /= 0 /\ b /= 0 /\ c /= 0
    /\ ~(MulFits(a, b, max) /\ MulFits(a * b, c, max))

\* The shape product a completed reserve or resize asked for is too large for
\* std::size_t.
RequestOverflows(call) ==
    LET parms == context_data(call.parms_id)
    IN  NotRepresentable(call.size, parms.poly_modulus_degree,
                         Len(parms.coeff_modulus), SizeMax)

\* The header of the stream is complete, so the three shape fields decode.
HeaderDecodes(bytes) == CanRead(bytes, 0, OffsetData)

DecodedNotRepresentable(bytes, max) ==
    NotRepresentable(ReadU64(bytes, OffsetSize), ReadU64(bytes, OffsetDegree),
                     ReadU64(bytes, OffsetCount), max)

\* C11 as stated: whenever the shape product of a reserve or resize, or the
\* decoded shape product of an unsafe_load, is not representable in the size
\* type, the call fails with ArithmeticOverflow and the buffer is as before.
C11_OverflowFailsWithArithmeticOverflow ==
    [][\A o \in Objects :
          /\ (last'.op \in {"reserve", "resize"} /\ last'.who = o /\
               Resolved(last') /\ RequestOverflows(last')) =>
                 last'.err = "ArithmeticOverflow" /\ ct'[o].data = ct[o].data
          /\ (last'.op = "unsafe_load" /\ last'.who = o /\
               HeaderDecodes(stream.bytes) /\
               DecodedNotRepresentable(stream.bytes, SizeMax)) =>
                 last'.err = "ArithmeticOverflow" /\ ct'[o].data = ct[o].data]_vars

\* C11 amended: overflow is never silent. A reserve or resize whose size
\* passed the range check and whose product is not representable in size_t
\* fails with ArithmeticOverflow; one whose size is out of range fails with
\* InvalidArgument first. An unsafe_load whose stream decodes fails with
\* ArithmeticOverflow when the decoded product is not representable in
\* uint64_t, and with CorruptData when it is representable in uint64_t and not
\* in size_t. In each case the buffer is as before, and no call succeeds with
\* a product that is not representable.
C11_OverflowNeverSilent ==
    [][\A o \in Objects :
          /\ (last'.op \in {"reserve", "resize"} /\ last'.who = o /\
               Resolved(last') /\ RequestOverflows(last')) =>
                 /\ ct'[o].data = ct[o].data
                 /\ last'.err =
                        IF InSizeRange(last'.size) THEN "ArithmeticOverflow"
                        ELSE "InvalidArgument"
          /\ (last'.op = "unsafe_load" /\ last'.who = o /\
               StreamDecodes(stream) /\
               DecodedNotRepresentable(stream.bytes, SizeMax)) =>
                 /\ ct'[o].data = ct[o].data
                 /\ last'.err =
                        IF DecodedNotRepresentable(stream.bytes, U64Max)
                        THEN "ArithmeticOverflow" ELSE "CorruptData"
          /\ (last'.op = "unsafe_load" /\ last'.who = o /\
               HeaderDecodes(stream.bytes) /\
               DecodedNotRepresentable(stream.bytes, SizeMax)) =>
                 last'.err /= "none" /\ ct'[o].data = ct[o].data]_vars

\* C11 witness: a resize with a size inside the range failed with
\* ArithmeticOverflow on an object that holds a buffer from an earlier resize.
C11_Witness ==
    /\ last.op = "resize" /\ last.who = 1
    /\ InSizeRange(last.size)
    /\ Resolved(last) /\ RequestOverflows(last)
    /\ last.err = "ArithmeticOverflow"
    /\ Len(ct[1].data.elems) > 0

\* C12: save and unsafe_load leave the stream's exception mask as it was when
\* the call began, whether they return or throw, for every mask the stream
\* came with and every write or read that faults.
C12_ExceptionMaskRestored ==
    [][last'.op \in {"save", "unsafe_load"} =>
           stream'.exceptions = stream.exceptions]_vars

\* C12 witness: a save whose fourth write failed has thrown, on a stream that
\* came with badbit in its mask, and the stream carries that mask and badbit.
C12_Witness ==
    /\ last.op = "save" /\ last.err = "IOFault"
    /\ last.size = 4
    /\ stream.exceptions = {"badbit"}
    /\ stream.rdstate = {"badbit"}
    /\ Len(stream.bytes) = OffsetDegree

\* C13: after any sequence of completed public operations, size is 0 or
\* inside [SEAL_CIPHERTEXT_SIZE_MIN, SEAL_CIPHERTEXT_SIZE_MAX].
C13_SizeZeroOrInRange ==
    \A o \in Objects : ct[o].size = 0 \/ InSizeRange(ct[o].size)

\* C14: is_metadata_valid_for never raises and changes no field; it returns
\* false for a null context, for a context whose parameters are not set, for
\* a stored fingerprint the registry does not resolve, and when the stored
\* modulus_count or ring_degree differs from the resolved set's; it returns
\* true exactly when the fingerprint resolves and both stored values match.
C14_ShapeMatchesFailsClosed ==
    [][\A o \in Objects :
          (last'.op = "is_metadata_valid_for" /\ last'.who = o) =>
              /\ ct' = ct
              /\ last'.err = "none"
              /\ last'.context \in {"null", "unset"} => ~last'.ret
              /\ last'.ret <=>
                     /\ last'.context = "valid"
                     /\ \E k \in RegisteredKeys :
                            /\ ct[o].parms_id = ParmsId(k)
                            /\ ct[o].coeff_mod_count = Len(ContextData(k).coeff_modulus)
                            /\ ct[o].poly_modulus_degree =
                                   ContextData(k).poly_modulus_degree]_vars

\* C14 witness: the check returned false for a valid context on an object
\* whose fingerprint resolves to a set with the stored modulus_count and
\* another ring_degree (a resize to that set had failed on overflow).
C14_Witness ==
    /\ last.op = "is_metadata_valid_for" /\ last.who = 1
    /\ last.context = "valid" /\ ~last.ret
    /\ ~IsNull(context_data(ct[1].parms_id))
    /\ ct[1].coeff_mod_count = Len(context_data(ct[1].parms_id).coeff_modulus)
    /\ ct[1].poly_modulus_degree /= context_data(ct[1].parms_id).poly_modulus_degree
    /\ ct[1].size > 0

\* C15: after any sequence of completed reserve and resize calls, the
\* buffer's reserved capacity is at least capacity * ring_degree *
\* modulus_count, taken from the stored fields.
C15_BufferCapacityCoversReserved ==
    \A o \in Objects :
        ct[o].data.capacity >=
            ct[o].size_capacity * ct[o].poly_modulus_degree * ct[o].coeff_mod_count

\* The widths of the six header fields in the order the format fixes:
\* fingerprint, is_ntt_form, size, ring_degree, modulus_count, scale.
HeaderFieldWidths == <<ParmsIdBytes, 1, U64Bytes, U64Bytes, U64Bytes, U64Bytes>>

RECURSIVE SumOfFirst(_, _)
SumOfFirst(widths, n) ==
    IF n = 0 THEN 0 ELSE widths[n] + SumOfFirst(widths, n - 1)

HeaderWidth == SumOfFirst(HeaderFieldWidths, Len(HeaderFieldWidths))

\* The unsigned integer the width bytes of b after the first start bytes encode.
DecodeAt(b, start, width) == FromBytes(SubSeq(b, start + 1, start + width))

\* Header field f of c is in b at the place the format fixes.
HeaderFieldInPlace(b, c, f) ==
    LET start == SumOfFirst(HeaderFieldWidths, f - 1)
    IN  /\ Len(b) >= start + HeaderFieldWidths[f]
        /\ CASE f = 1 -> \A w \in 1..ParmsIdWords :
                             DecodeAt(b, start + U64Bytes * (w - 1), U64Bytes) =
                                 c.parms_id[w]
              [] f = 2 -> /\ b[start + 1] \in {0, 1}
                          /\ b[start + 1] = 1 <=> c.is_ntt_form
              [] f = 3 -> DecodeAt(b, start, U64Bytes) = c.size
              [] f = 4 -> DecodeAt(b, start, U64Bytes) = c.poly_modulus_degree
              [] f = 5 -> DecodeAt(b, start, U64Bytes) = c.coeff_mod_count
              [] f = 6 -> DecodeAt(b, start, U64Bytes) = c.scale

\* C16: on a stream that is in a good state, save emits fingerprint,
\* is_ntt_form (1 byte, 0 or 1), size, ring_degree, modulus_count and scale
\* (8 bytes each) in that order, the payload begins right after these
\* fingerprint_width + 1 + 8 + 8 + 8 + 8 bytes, and a save whose write k
\* faults leaves exactly the writes before k in the stream.
C16_SaveLayoutAndFaultPrefix ==
    [][(last'.op = "save" /\ stream.rdstate = {} /\ stream.bytes = <<>>) =>
          LET b == stream'.bytes
              c == ct[last'.who]
              done == IF last'.size = 0 THEN SaveWrites ELSE last'.size - 1
              count == Len(c.data.elems)
          IN  /\ last'.err = "none" <=> last'.size = 0
              /\ \A f \in 1..Len(HeaderFieldWidths) :
                     f <= done => HeaderFieldInPlace(b, c, f)
              /\ done <= Len(HeaderFieldWidths) =>
                     Len(b) = SumOfFirst(HeaderFieldWidths, done)
              /\ done > Len(HeaderFieldWidths) =>
                     /\ Len(b) >= HeaderWidth + U64Bytes
                     /\ DecodeAt(b, HeaderWidth, U64Bytes) = count
              /\ done = Len(HeaderFieldWidths) + 1 =>
                     Len(b) = HeaderWidth + U64Bytes
              /\ done = SaveWrites =>
                     /\ Len(b) = HeaderWidth + U64Bytes * (1 + count)
                     /\ \A i \in 1..count :
                            DecodeAt(b, HeaderWidth + U64Bytes * i, U64Bytes) =
                                c.data.elems[i]]_vars

\* C16 witness: a save of an object with two polynomials and is_ntt_form set
\* faulted at the write of modulus_count, with fingerprint, is_ntt_form, size
\* and ring_degree in the stream and nothing after them.
C16_Witness ==
    /\ last.op = "save" /\ last.err = "IOFault" /\ last.size = 5
    /\ stream.saved.size = SEAL_CIPHERTEXT_SIZE_MIN
    /\ stream.saved.is_ntt_form
    /\ Len(stream.bytes) = ParmsIdBytes + 1 + U64Bytes + U64Bytes

\* C17: after a successful reserve the buffer's length is the smaller of
\* size_capacity * ring_degree * modulus_count and the length before the
\* call, the elements below the new length are as before, and the stored
\* ring_degree and modulus_count are those of the resolved parameter set.
C17_ReserveTruncatesAndKeepsPrefix ==
    [][\A o \in Objects :
          (last'.op = "reserve" /\ last'.who = o /\ last'.err = "none") =>
              LET parms == context_data(last'.parms_id)
                  new_capacity_elements ==
                      last'.size * parms.poly_modulus_degree * Len(parms.coeff_modulus)
                  before == ct[o].data.elems
                  after == ct'[o].data.elems
              IN  /\ ~IsNull(parms)
                  /\ Len(after) = IF new_capacity_elements < Len(before)
                                  THEN new_capacity_elements ELSE Len(before)
                  /\ \A i \in 1..Len(after) : after[i] = before[i]
                  /\ ct'[o].poly_modulus_degree = parms.poly_modulus_degree
                  /\ ct'[o].coeff_mod_count = Len(parms.coeff_modulus)]_vars

\* C17 witness: a reserve for parameter set 1 succeeded on an object whose
\* buffer had been longer; the buffer is cut to the new capacity and keeps a
\* nonzero coefficient from before.
C17_Witness ==
    /\ last.op = "reserve" /\ last.who = 1 /\ last.err = "none"
    /\ last.parms_id = ParmsId(1)
    /\ Len(ct[1].data.elems) = last.size
    /\ ct[1].data.capacity > Len(ct[1].data.elems)
    /\ ct[1].size < last.size
    /\ NonZeros(ct[1].data.elems) > 0

\* C18: a successful a = b between distinct objects leaves a's fingerprint,
\* is_ntt_form, scale, size, ring_degree, modulus_count and buffer contents
\* equal to b's and b as it was; a = a changes nothing; and a store into the
\* buffer of one object leaves the other object as it was.
C18_AssignIsDeepCopy ==
    [][/\ \A a, b \in Objects :
              (last'.op = "assign" /\ last'.who = a /\ last'.from = b /\
               last'.err = "none") =>
                  IF a = b
                  THEN ct' = ct
                  ELSE Carried(ct'[a]) = Carried(ct[b]) /\ ct'[b] = ct[b]
       /\ \A o, p \in Objects :
              (last'.op = "write" /\ last'.who = o /\ p /= o) => ct'[p] = ct[p]]_vars

\* C19: in a = b between distinct objects the internal resize does not fail
\* and the copy finds a target buffer exactly as long as the source buffer:
\* nothing is written past the target buffer and no target element is left
\* uncopied.
C19_AssignCopiesIntoEqualLength ==
    [][\A a, b \in Objects :
          (last'.op = "assign" /\ last'.who = a /\ last'.from = b /\ a /= b) =>
              /\ last'.err = "none"
              /\ last'.msg = ""
              /\ Len(ct'[a].data.elems) = Len(ct[b].data.elems)]_vars

\* C20: whenever the shape check passes, the scan of is_valid_for reads only
\* elements of the buffer, and a scan that ends with true has read exactly
\* size * ring_degree * modulus_count of them.
C20_ScanStaysInsideBuffer ==
    \A o \in Objects :
        (/\ last.op = "is_valid_for" /\ last.who = o
         /\ is_metadata_valid_for(ct[o], last.context)) =>
            LET reads == ScanReads(ct[o], context_data(ct[o].parms_id).coeff_modulus)
            IN  /\ \A n \in reads : n < Len(ct[o].data.elems)
                /\ last.ret => Cardinality(reads) = ShapeProduct(ct[o])

=============================================================================
